---- MODULE Spec2Model ----
(***************************************************************************)
(* Model of src/googleDocsApiHelpers.ts: the text search of findTextRange  *)
(* (segment extraction, flattening, exact and normalized scan, instance    *)
(* selection), highlightApostrophePhrase and getParagraphRange.            *)
(*                                                                         *)
(* A JavaScript string is a sequence of UTF-16 code units; a code unit is  *)
(* written as a one-character string, or as a name for the code points     *)
(* outside ASCII ("RSQUO" is U+2019, "NBSP" is U+00A0, "LF" is U+000A).    *)
(* Positions in strings are 0-based as in the source.                      *)
(***************************************************************************)
EXTENDS Integers, Sequences, FiniteSets, TLC

\* ---------------------------------------------------------------- bounds
MaxDocLen == 3
MaxQueryLen == 2
MaxInstance == 3
MaxExtraScanSteps == 2
MaxNormLen == 4
MaxPhraseLen == 4
MaxHDocLen == 2
MaxHInstance == 2
MaxWalkDocLen == 4
MaxWalkQueryLen == 3
MaxConcurrentDocLen == 2
MaxConcurrentInstance == 2

NULL == [none |-> TRUE]

\* an error object: its class, the condition it reports, where it was made
ErrorValue(type, condition, origin) ==
  [type |-> type, condition |-> condition, origin |-> origin]
NoError == ErrorValue("none", "none", "none")

\* ------------------------------------------------------- character classes
\* [\u0027\u2019\u2018\u201B\u0060\u00B4]
ApostropheFamily == {"'", "RSQUO", "LSQUO", "U201B", "GRAVE", "ACUTE"}
\* [\u201C\u201D\u201E\u201F\u2033\u2036]
QuoteFamily == {"LDQUO", "RDQUO", "U201E", "U201F", "U2033", "U2036"}
\* [\u2013\u2014\u2015]
DashFamily == {"ENDASH", "EMDASH", "U2015"}
\* the class \s of a JavaScript regular expression (and of String.trim)
WhitespaceNoNbsp == {" ", "LF", "TAB", "U2000", "U200A"}
Whitespace == {" ", "LF", "TAB", "NBSP", "U2000", "U200A"}
\* the class \w
WordChars == {"a", "s", "t"}

\* ------------------------------------------------------ string primitives
Substring(s, from, to) == SubSeq(s, from + 1, to)

MapChars(s, family, repl) ==
  [i \in 1..Len(s) |-> IF s[i] \in family THEN repl ELSE s[i]]

\* String.prototype.indexOf(search, from)
IndexOf(text, search, from) ==
  LET start == IF from > Len(text) THEN Len(text) ELSE from
      hits == {k \in start..(Len(text) - Len(search)) :
                 Substring(text, k, k + Len(search)) = search}
  IN IF hits = {} THEN -1 ELSE CHOOSE k \in hits : \A j \in hits : k <= j

\* replace(/\s+/g, ' '): every maximal run of whitespace becomes one space
RECURSIVE CollapseRuns(_, _)
CollapseRuns(s, ws) ==
  IF s = <<>> THEN <<>>
  ELSE IF Head(s) \in ws
       THEN IF Len(s) > 1 /\ s[2] \in ws
            THEN CollapseRuns(Tail(s), ws)
            ELSE <<" ">> \o CollapseRuns(Tail(s), ws)
       ELSE <<Head(s)>> \o CollapseRuns(Tail(s), ws)

CollapseWhitespaceNoNbsp(s) == CollapseRuns(s, WhitespaceNoNbsp)
CollapseWhitespace(s) == CollapseRuns(s, Whitespace)

\* replace(/\u2000-\u200A/g, ' '): the pattern is the three characters
\* U+2000, '-', U+200A in a row (it is not inside a character class)
RECURSIVE ReplaceUnicodeSpaces(_)
ReplaceUnicodeSpaces(s) ==
  IF s = <<>> THEN <<>>
  ELSE IF Len(s) >= 3 /\ SubSeq(s, 1, 3) = <<"U2000", "-", "U200A">>
       THEN <<" ">> \o ReplaceUnicodeSpaces(SubSeq(s, 4, Len(s)))
       ELSE <<Head(s)>> \o ReplaceUnicodeSpaces(Tail(s))

\* String.prototype.trim()
RECURSIVE TrimStart(_)
TrimStart(s) ==
  IF s # <<>> /\ Head(s) \in Whitespace THEN TrimStart(Tail(s)) ELSE s

RECURSIVE TrimEnd(_)
TrimEnd(s) ==
  IF s # <<>> /\ s[Len(s)] \in Whitespace
  THEN TrimEnd(SubSeq(s, 1, Len(s) - 1)) ELSE s

Trim(s) == TrimEnd(TrimStart(s))

StandardizeApostrophes(s) == MapChars(s, ApostropheFamily, "'")

normalizeText(text) ==
  LET s1 == MapChars(text, ApostropheFamily, "'")
      s2 == MapChars(s1, QuoteFamily, "\"")
      s3 == MapChars(s2, DashFamily, "-")
      s4 == CollapseWhitespace(s3)
      s5 == MapChars(s4, {"NBSP"}, " ")
      s6 == ReplaceUnicodeSpaces(s5)
  IN Trim(s6)

\* all strings over an alphabet up to a length
StringsUpTo(chars, n) == UNION {[1..k -> chars] : k \in 0..n}

\* ------------------------------------------------------------- documents
\* The value of res.data.body.content: a sequence of structural elements.
\* A field the API leaves out (undefined) is UNDEF.
UNDEF == -1

TextRun(s, e, c) == [startIndex |-> s, endIndex |-> e, content |-> c]

ParagraphElement(s, e, runs) ==
  [kind |-> "paragraph", startIndex |-> s, endIndex |-> e,
   elements |-> runs, tableRows |-> <<>>]

TableElement(s, e, rows) ==
  [kind |-> "table", startIndex |-> s, endIndex |-> e,
   elements |-> <<>>, tableRows |-> rows]

SectionBreakElement ==
  [kind |-> "sectionBreak", startIndex |-> UNDEF, endIndex |-> 1,
   elements |-> <<>>, tableRows |-> <<>>]

\* res.data.body of a document without content, and of one with content
NoContent == [hasContent |-> FALSE, content |-> <<>>]
Body(content) == [hasContent |-> TRUE, content |-> content]

\* A document whose paragraphs hold the text t.  Every paragraph ends with
\* a line feed, the body starts with a section break and the text at
\* index 1; a table, its row and its cell each take one index.
\*   "single": one paragraph with one text run
\*   "runs"  : one paragraph, a second text run starts after the first
\*             character (a styling boundary)
\*   "table" : a paragraph with the first character, a table with one cell
\*             holding the rest, and the closing empty paragraph
\*   "cells" : as "table", the table having two cells: the second
\*             character in the first, the rest in the second
\*   "nested": as "table", the cell holding the second character and a
\*             table of its own with the rest
Layouts == {"single", "runs", "table", "cells"}
StructuralLayouts == Layouts \cup {"nested"}

BuildDocument(t, layout) ==
  LET L == Len(t)
      rest == SubSeq(t, 2, L)
      rest2 == SubSeq(t, 3, L)
  IN Body(IF layout = "single" \/ L = 0
     THEN <<SectionBreakElement,
            ParagraphElement(1, L + 2, <<TextRun(1, L + 2, t \o <<"LF">>)>>)>>
     ELSE IF layout = "runs"
     THEN <<SectionBreakElement,
            ParagraphElement(1, L + 2,
              <<TextRun(1, 2, <<t[1]>>),
                TextRun(2, L + 2, rest \o <<"LF">>)>>)>>
     ELSE IF layout = "cells" /\ L >= 2
     THEN <<SectionBreakElement,
            ParagraphElement(1, 3, <<TextRun(1, 3, <<t[1], "LF">>)>>),
            TableElement(3, L + 8,
              << << <<ParagraphElement(6, 8,
                        <<TextRun(6, 8, <<t[2], "LF">>)>>)>>,
                    <<ParagraphElement(9, L + 8,
                        <<TextRun(9, L + 8, rest2 \o <<"LF">>)>>)>> >> >>),
            ParagraphElement(L + 8, L + 9,
              <<TextRun(L + 8, L + 9, <<"LF">>)>>)>>
     ELSE IF layout = "nested" /\ L >= 2
     THEN <<SectionBreakElement,
            ParagraphElement(1, 3, <<TextRun(1, 3, <<t[1], "LF">>)>>),
            TableElement(3, L + 11,
              << << <<ParagraphElement(6, 8,
                        <<TextRun(6, 8, <<t[2], "LF">>)>>),
                      TableElement(8, L + 10,
                        << << <<ParagraphElement(11, L + 10,
                                  <<TextRun(11, L + 10,
                                            rest2 \o <<"LF">>)>>)>> >> >>),
                      ParagraphElement(L + 10, L + 11,
                        <<TextRun(L + 10, L + 11, <<"LF">>)>>)>> >> >>),
            ParagraphElement(L + 11, L + 12,
              <<TextRun(L + 11, L + 12, <<"LF">>)>>)>>
     ELSE <<SectionBreakElement,
            ParagraphElement(1, 3, <<TextRun(1, 3, <<t[1], "LF">>)>>),
            TableElement(3, L + 6,
              << << <<ParagraphElement(6, L + 6,
                        <<TextRun(6, L + 6, rest \o <<"LF">>)>>)>> >> >>),
            ParagraphElement(L + 6, L + 7,
              <<TextRun(L + 6, L + 7, <<"LF">>)>>)>>)

\* ------------------------------------------------- findTextRange helpers
RECURSIVE ConcatAll(_)
ConcatAll(seqs) ==
  IF seqs = <<>> THEN <<>> ELSE Head(seqs) \o ConcatAll(Tail(seqs))

RECURSIVE extractTextFromContent(_)
extractTextFromContent(content) ==
  LET OfElement(element) ==
        LET runs == SelectSeq(element.elements,
                      LAMBDA pe : /\ pe.content # <<>>
                                  /\ pe.startIndex # UNDEF
                                  /\ pe.endIndex # UNDEF)
            OfRow(row) ==
              ConcatAll([c \in 1..Len(row) |-> extractTextFromContent(row[c])])
            cells ==
              ConcatAll([r \in 1..Len(element.tableRows) |->
                           OfRow(element.tableRows[r])])
        IN [i \in 1..Len(runs) |->
              [text |-> runs[i].content, startIndex |-> runs[i].startIndex,
               endIndex |-> runs[i].endIndex]] \o cells
  IN ConcatAll([i \in 1..Len(content) |-> OfElement(content[i])])

\* Array.prototype.sort((a, b) => a.startIndex - b.startIndex): stable
RECURSIVE InsertByStartIndex(_, _)
InsertByStartIndex(sorted, x) ==
  IF sorted = <<>> THEN <<x>>
  ELSE IF sorted[Len(sorted)].startIndex <= x.startIndex
       THEN Append(sorted, x)
       ELSE Append(InsertByStartIndex(SubSeq(sorted, 1, Len(sorted) - 1), x),
                   sorted[Len(sorted)])

RECURSIVE SortByStartIndex(_)
SortByStartIndex(s) ==
  IF s = <<>> THEN <<>>
  ELSE InsertByStartIndex(SortByStartIndex(SubSeq(s, 1, Len(s) - 1)),
                          s[Len(s)])

BuildFullText(segments) ==
  ConcatAll([i \in 1..Len(segments) |-> segments[i].text])

OriginalIndexLogical(segment, charIndex) == charIndex
OriginalIndex(segment, charIndex) == segment.startIndex + charIndex

BuildCharToSegmentMap(segments) ==
  ConcatAll([i \in 1..Len(segments) |->
    [c \in 1..Len(segments[i].text) |->
       [segmentIndex |-> i - 1, charIndex |-> c - 1,
        originalIndex |-> OriginalIndex(segments[i], c - 1)]]])

\* charToSegmentMap[i] for a 0-based i; undefined outside the array
MappingDefined(map, i) == i >= 0 /\ i < Len(map)
MappingAt(map, i) == map[i + 1]

Max(a, b) == IF a >= b THEN a ELSE b
Min(a, b) == IF a <= b THEN a ELSE b

extractTextFromRange(segments, startIndex, endIndex) ==
  LET Part(segment) ==
        IF segment.startIndex < endIndex /\ segment.endIndex > startIndex
        THEN Substring(segment.text,
               Max(segment.startIndex, startIndex) - segment.startIndex,
               Min(segment.endIndex, endIndex) - segment.startIndex)
        ELSE <<>>
  IN ConcatAll([i \in 1..Len(segments) |-> Part(segments[i])])

searchVariants(text) ==
  <<text, normalizeText(text), StandardizeApostrophes(text)>>

\* the walk of lines 180-192: count characters of the original text until
\* the found position of the normalized text is reached
RECURSIVE WalkToFound(_, _, _, _)
WalkToFound(text, originalFoundIndex, normalizedIndex, foundIndex) ==
  IF normalizedIndex < foundIndex /\ originalFoundIndex < Len(text)
  THEN WalkToFound(text, originalFoundIndex + 1,
         normalizedIndex + Len(normalizeText(<<text[originalFoundIndex + 1]>>)),
         foundIndex)
  ELSE originalFoundIndex

\* the walk of lines 195-206
RECURSIVE WalkToEnd(_, _, _)
WalkToEnd(text, originalEndIndex, remainingNormalizedLength) ==
  IF remainingNormalizedLength > 0 /\ originalEndIndex < Len(text)
  THEN WalkToEnd(text, originalEndIndex + 1,
         remainingNormalizedLength
           - Len(normalizeText(<<text[originalEndIndex + 1]>>)))
  ELSE originalEndIndex

Range(s, e) == [startIndex |-> s, endIndex |-> e]

\* new Map(allMatches.map(m => [key, m])).values(): one entry per key, in
\* the order of the keys' first insertion
UniqueByKeyNone(ms) == ms
RECURSIVE UniqueByKey(_)
UniqueByKey(ms) ==
  IF ms = <<>> THEN <<>>
  ELSE LET init == UniqueByKey(SubSeq(ms, 1, Len(ms) - 1))
           last == ms[Len(ms)]
       IN IF \E i \in 1..Len(init) : init[i] = last
          THEN init ELSE Append(init, last)

uniqueMatchesOf(ms) == SortByStartIndex(UniqueByKey(ms))

SelectInstanceOf(ms, inst) ==
  IF Len(uniqueMatchesOf(ms)) >= inst
  THEN uniqueMatchesOf(ms)[inst] ELSE NULL


\* ------------------------------------------------------------------ state
VARIABLES
  op,                \* the exported operation the caller runs
  body,              \* the document held by the API: res.data.body
  textToFind,        \* findTextRange: argument
  instance,          \* findTextRange: argument
  pc,                \* findTextRange: position in the function
  textSegments,      \* findTextRange: local
  fullText,          \* findTextRange: local
  charToSegmentMap,  \* findTextRange: local
  variantIndex,      \* findTextRange: position of the loop over searchVariants
  searchIndex,       \* findValidatedMatches: local
  scanSteps,         \* iterations the running scan loop has made
  matches,           \* findValidatedMatches: local
  allMatches,        \* findTextRange: local
  result,            \* findTextRange: returned value
  thrown,            \* findTextRange: the error thrown, or NoError
  results,           \* the outcomes of the calls completed so far
  inputText,         \* normalizeText: argument
  normalized,        \* normalizeText: the values of its successive applications
  indexWithin,       \* getParagraphRange: argument
  paragraphPc,       \* getParagraphRange: position in the function
  paragraphRange,    \* getParagraphRange: returned value
  paragraphThrown,   \* getParagraphRange: the error thrown, or NoError
  fetchCode,         \* the code of the last failure of docs.documents.get, or 0
  phrase,            \* highlightApostrophePhrase: argument textToFind
  phraseInstance,    \* highlightApostrophePhrase: argument instance
  styleParams,       \* highlightApostrophePhrase: argument
  highlightPc,       \* highlightApostrophePhrase: position in the function
  beforeApostrophe,  \* highlightApostrophePhrase: local
  afterApostrophe,   \* highlightApostrophePhrase: local
  successfulHighlights, \* highlightApostrophePhrase: local
  batchUpdates,      \* the requests docs.documents.batchUpdate has applied
  highlightResult,   \* highlightApostrophePhrase: returned value
  calls              \* concurrent calls of findTextRange: the locals of each

findVars == <<textToFind, instance, pc, textSegments, fullText,
              charToSegmentMap, variantIndex, searchIndex, scanSteps,
              matches, allMatches, result, thrown, results>>

normalizeVars == <<inputText, normalized>>

paragraphVars == <<indexWithin, paragraphPc, paragraphRange, paragraphThrown>>

highlightVars == <<phrase, phraseInstance, styleParams, highlightPc,
                   beforeApostrophe, afterApostrophe, successfulHighlights,
                   batchUpdates, highlightResult>>

concurrentVars == <<calls>>

callerVars == <<normalizeVars, paragraphVars, highlightVars, concurrentVars>>

vars == <<op, body, fetchCode, findVars, callerVars>>

\* ----------------------------------------------------------------- inputs
DocChars == {"a", "RSQUO", " "}
QueryChars == {"a", "'", " "}

DocumentsUpTo(n) ==
  {BuildDocument(t, layout) :
     t \in StringsUpTo(DocChars, n), layout \in Layouts}
    \cup {NoContent}
Documents == DocumentsUpTo(MaxDocLen)
Queries == StringsUpTo(QueryChars, MaxQueryLen)
FetchErrorCodes == {404, 403, 500}

\* ------------------------------------------------------- findTextRange
\* the call: the function starts and awaits docs.documents.get
CallFindTextRange(text, inst) ==
  /\ textToFind' = text
  /\ instance' = inst
  /\ pc' = "fetching"
  /\ textSegments' = <<>>
  /\ fullText' = <<>>
  /\ charToSegmentMap' = <<>>
  /\ variantIndex' = 0
  /\ searchIndex' = 0
  /\ scanSteps' = 0
  /\ matches' = <<>>
  /\ allMatches' = <<>>
  /\ result' = NULL
  /\ thrown' = NoError

Outcome(r, e) ==
  [text |-> textToFind, instance |-> instance, result |-> r, thrown |-> e]

\* lines 275-279: the catch clause of findTextRange
FindErrorOf(code) ==
  IF code = 404 THEN ErrorValue("UserError", "not found", "findTextRange")
  ELSE IF code = 403
       THEN ErrorValue("UserError", "permission denied", "findTextRange")
       ELSE ErrorValue("Error", "internal", "findTextRange")

\* docs.documents.get rejects with an error carrying a code
FetchFails ==
  /\ pc = "fetching"
  /\ \E code \in FetchErrorCodes :
       /\ fetchCode' = code
       /\ thrown' = FindErrorOf(code)
       /\ results' = Append(results, Outcome(NULL, FindErrorOf(code)))
  /\ pc' = "thrown"
  /\ UNCHANGED <<op, body, callerVars, textToFind, instance, textSegments, fullText,
                 charToSegmentMap, variantIndex, searchIndex, scanSteps,
                 matches, allMatches, result>>

\* lines 60-62: the document has no body content
FetchNoContent ==
  /\ pc = "fetching"
  /\ ~body.hasContent
  /\ result' = NULL
  /\ results' = Append(results, Outcome(NULL, NoError))
  /\ pc' = "done"
  /\ UNCHANGED <<op, body, fetchCode, callerVars, textToFind, instance, textSegments, fullText,
                 charToSegmentMap, variantIndex, searchIndex, scanSteps,
                 matches, allMatches, thrown>>

\* lines 55-142: the fetch resolves; segments, flattened text and char map
\* are built and the loop over the search variants starts
FetchResolves ==
  /\ pc = "fetching"
  /\ body.hasContent
  /\ LET segments == SortByStartIndex(extractTextFromContent(body.content))
     IN /\ textSegments' = segments
        /\ fullText' = BuildFullText(segments)
        /\ charToSegmentMap' = BuildCharToSegmentMap(segments)
  /\ variantIndex' = 1
  /\ searchIndex' = 0
  /\ scanSteps' = 0
  /\ matches' = <<>>
  /\ allMatches' = <<>>
  /\ pc' = "exact"
  /\ UNCHANGED <<op, body, fetchCode, callerVars, textToFind, instance, result, thrown, results>>

searchText == searchVariants(textToFind)[variantIndex]

\* the model follows a scan loop for this many iterations
ScanStepsCap == Len(fullText) + 1 + MaxExtraScanSteps

\* line 156: the offset of the last character of the hit
ExactEndOffset(foundIndex, len) == foundIndex + len - 1

\* line 165: where the next search of the exact scan starts
NextSearchIndexPastHit(foundIndex, len) == foundIndex + len
NextSearchIndex(foundIndex, len) == foundIndex + 1

\* line 169: the normalized scan runs if the exact scan found nothing
RunsNormalizedPassAlways(exactMatches) == TRUE
RunsNormalizedPass(exactMatches) == exactMatches = <<>>

\* lines 150-166: one iteration of the exact scan.  On "not found" the
\* loop is left: for the normalized scan if there is no match (line 169),
\* else findValidatedMatches returns.
ExactScan ==
  /\ pc = "exact"
  /\ LET foundIndex == IndexOf(fullText, searchText, searchIndex)
         endOffset == ExactEndOffset(foundIndex, Len(searchText))
     IN IF foundIndex = -1
        THEN /\ pc' = IF RunsNormalizedPass(matches)
                       THEN "normalized" ELSE "returned"
             /\ searchIndex' = IF RunsNormalizedPass(matches)
                                THEN 0 ELSE searchIndex
             /\ scanSteps' = 0
             /\ matches' = matches
        ELSE /\ scanSteps < ScanStepsCap
             /\ scanSteps' = scanSteps + 1
             /\ matches' =
                  IF /\ MappingDefined(charToSegmentMap, foundIndex)
                     /\ MappingDefined(charToSegmentMap, endOffset)
                  THEN Append(matches,
                         Range(MappingAt(charToSegmentMap, foundIndex).originalIndex,
                               MappingAt(charToSegmentMap, endOffset).originalIndex + 1))
                  ELSE matches
             /\ searchIndex' = NextSearchIndex(foundIndex, Len(searchText))
             /\ pc' = "exact"
  /\ UNCHANGED <<op, body, fetchCode, callerVars, textToFind, instance, textSegments, fullText,
                 charToSegmentMap, variantIndex, allMatches, result, thrown,
                 results>>

ValidatedAlways(actualText, normalizedSearchText) == TRUE
Validated(actualText, normalizedSearchText) ==
  normalizeText(actualText) = normalizedSearchText

\* the range a hit of the normalized scan maps to (lines 180-210), or NULL
\* when a mapping is undefined
NormalizedHitRange(foundIndex, normalizedSearchText) ==
  LET originalFoundIndex == WalkToFound(fullText, 0, 0, foundIndex)
      originalEndIndex ==
        WalkToEnd(fullText, originalFoundIndex, Len(normalizedSearchText))
  IN IF /\ MappingDefined(charToSegmentMap, originalFoundIndex)
        /\ MappingDefined(charToSegmentMap, originalEndIndex - 1)
     THEN Range(MappingAt(charToSegmentMap, originalFoundIndex).originalIndex,
                MappingAt(charToSegmentMap, originalEndIndex - 1).originalIndex + 1)
     ELSE NULL

\* lines 174-224: one iteration of the normalized scan
NormalizedScan ==
  /\ pc = "normalized"
  /\ LET normalizedFullText == normalizeText(fullText)
         normalizedSearchText == normalizeText(searchText)
         foundIndex == IndexOf(normalizedFullText, normalizedSearchText,
                               searchIndex)
         hit == NormalizedHitRange(foundIndex, normalizedSearchText)
     IN IF foundIndex = -1
        THEN /\ pc' = "returned"
             /\ scanSteps' = 0
             /\ UNCHANGED <<matches, searchIndex>>
        ELSE /\ scanSteps < ScanStepsCap
             /\ scanSteps' = scanSteps + 1
             /\ IF /\ hit # NULL
                   /\ Validated(extractTextFromRange(textSegments,
                                  hit.startIndex, hit.endIndex),
                                normalizedSearchText)
                THEN matches' = Append(matches, hit)
                ELSE matches' = matches
             /\ searchIndex' = foundIndex + 1
             /\ pc' = "normalized"
  /\ UNCHANGED <<op, body, fetchCode, callerVars, textToFind, instance, textSegments, fullText,
                 charToSegmentMap, variantIndex, allMatches, result, thrown,
                 results>>

\* lines 252-260: findValidatedMatches returned; the matches are added and
\* the loop goes on with the next variant or stops
VariantDone ==
  /\ pc = "returned"
  /\ allMatches' = allMatches \o matches
  /\ IF Len(allMatches') >= instance \/ variantIndex = 3
     THEN /\ pc' = "select"
          /\ UNCHANGED variantIndex
     ELSE /\ pc' = "exact"
          /\ variantIndex' = variantIndex + 1
  /\ matches' = <<>>
  /\ searchIndex' = 0
  /\ scanSteps' = 0
  /\ UNCHANGED <<op, body, fetchCode, callerVars, textToFind, instance, textSegments, fullText,
                 charToSegmentMap, result, thrown, results>>

\* lines 262-273: deduplicate, sort, return the requested instance
SelectInstance ==
  /\ pc = "select"
  /\ result' = SelectInstanceOf(allMatches, instance)
  /\ results' = Append(results, Outcome(result', NoError))
  /\ pc' = "done"
  /\ UNCHANGED <<op, body, fetchCode, callerVars, textToFind, instance, textSegments, fullText,
                 charToSegmentMap, variantIndex, searchIndex, scanSteps,
                 matches, allMatches, thrown>>

FindStep ==
  \/ FetchFails
  \/ FetchNoContent
  \/ FetchResolves
  \/ ExactScan
  \/ NormalizedScan
  \/ VariantDone
  \/ SelectInstance

\* the caller asks for the next instance of the same text
NextInstance ==
  /\ op = "find"
  /\ pc = "done"
  /\ instance < MaxInstance
  /\ CallFindTextRange(textToFind, instance + 1)
  /\ UNCHANGED <<op, body, fetchCode, callerVars, results>>

\* findTextRange before its call, with the given arguments
FindAt(position, query, inst) ==
  /\ textToFind = query
  /\ instance = inst
  /\ pc = position
  /\ textSegments = <<>>
  /\ fullText = <<>>
  /\ charToSegmentMap = <<>>
  /\ variantIndex = 0
  /\ searchIndex = 0
  /\ scanSteps = 0
  /\ matches = <<>>
  /\ allMatches = <<>>
  /\ result = NULL
  /\ thrown = NoError
  /\ results = <<>>

NoNormalize == inputText = <<>> /\ normalized = <<>>

NoParagraph ==
  /\ indexWithin = 0
  /\ paragraphPc = "idle"
  /\ paragraphRange = NULL
  /\ paragraphThrown = NoError

HighlightAt(position, query, inst, style) ==
  /\ phrase = query
  /\ phraseInstance = inst
  /\ styleParams = style
  /\ highlightPc = position
  /\ beforeApostrophe = <<>>
  /\ afterApostrophe = <<>>
  /\ successfulHighlights = 0
  /\ batchUpdates = <<>>
  /\ highlightResult = FALSE

NoHighlight == HighlightAt("idle", <<>>, 1, "none")

NoConcurrent == calls = <<>>

Init ==
  /\ op = "find"
  /\ body \in Documents
  /\ fetchCode = 0
  /\ NoConcurrent
  /\ \E query \in Queries : FindAt("fetching", query, 1)
  /\ NoNormalize
  /\ NoParagraph
  /\ NoHighlight

Next == FindStep \/ NextInstance

Spec == Init /\ [][Next]_vars


\* ------------------------------------------------------------ properties
\* the text segments of the document, in document order
SegmentsOfBody == SortByStartIndex(extractTextFromContent(body.content))
FlatTextOfBody == BuildFullText(SegmentsOfBody)

\* the positions at which q occurs in text as a substring
OccurrencesOf(text, q) ==
  {k \in 0..(Len(text) - Len(q)) : SubSeq(text, k + 1, k + Len(q)) = q}

\* the document index of position k of the flattened text
RECURSIVE NativeIndexOf(_, _)
NativeIndexOf(segments, k) ==
  IF k < Len(Head(segments).text)
  THEN Head(segments).startIndex + k
  ELSE NativeIndexOf(Tail(segments), k - Len(Head(segments).text))

\* the document range of the occurrence of q at position k
NativeRangeOf(k, q) ==
  Range(NativeIndexOf(SegmentsOfBody, k),
        NativeIndexOf(SegmentsOfBody, k + Len(q) - 1) + 1)

\* the call for instance k has returned (not thrown)
Returned(k) == Len(results) >= k /\ results[k].thrown = NoError

OccursOnce ==
  /\ op = "find"
  /\ Returned(1)
  /\ body.hasContent
  /\ textToFind # <<>>
  /\ Cardinality(OccurrencesOf(FlatTextOfBody, textToFind)) = 1

\* C1: a non-empty query that occurs exactly once in the flattened text is
\* found by findTextRange(D, Q, 1) at the range, in document indices, of
\* that occurrence, and the text extracted from that range is the query.
C1_UniqueOccurrenceFound ==
  OccursOnce =>
    LET k == CHOOSE j \in OccurrencesOf(FlatTextOfBody, textToFind) : TRUE
        r == results[1].result
    IN /\ r # NULL
       /\ r = NativeRangeOf(k, textToFind)
       /\ extractTextFromRange(SegmentsOfBody, r.startIndex, r.endIndex)
            = textToFind

\* the unique occurrence lies behind a table, where document indices and
\* positions of the flattened text differ by more than the body offset
C1_Witness ==
  /\ OccursOnce
  /\ results[1].result # NULL
  /\ \E k \in OccurrencesOf(FlatTextOfBody, textToFind) :
       results[1].result.startIndex > k + 1

\* C2: with N the number of occurrences of the query (N >= 1), the calls
\* for instances 1..N return ranges with strictly increasing startIndex
\* and the call for instance N + 1 returns none.
C2_InstancesIncreaseThenNone ==
  (op = "find" /\ body.hasContent /\ textToFind # <<>>) =>
    LET N == Cardinality(OccurrencesOf(FlatTextOfBody, textToFind))
    IN N >= 1 =>
         \A k \in 1..Len(results) :
           Returned(k) =>
             /\ k <= N => results[k].result # NULL
             /\ (k <= N /\ k > 1) =>
                  results[k - 1].result.startIndex
                    < results[k].result.startIndex
             /\ k = N + 1 => results[k].result = NULL

\* a word: word characters around or next to one straight apostrophe
IsApostropheWord(q) ==
  /\ Cardinality({i \in 1..Len(q) : q[i] = "'"}) = 1
  /\ \A i \in 1..Len(q) : q[i] \in WordChars \cup {"'"}
  /\ \E i \in 1..Len(q) : q[i] \in WordChars

CurlyOf(q) == [i \in 1..Len(q) |-> IF q[i] = "'" THEN "RSQUO" ELSE q[i]]

CurlyWordInDocument ==
  /\ op = "find"
  /\ Returned(1)
  /\ body.hasContent
  /\ IsApostropheWord(textToFind)
  /\ OccurrencesOf(FlatTextOfBody, textToFind) = {}
  /\ Cardinality(OccurrencesOf(FlatTextOfBody, CurlyOf(textToFind))) = 1

\* C3: the document has the word with a curly apostrophe, the query has it
\* with a straight one: findTextRange returns the document range of the
\* word, wherever the word stands in the document.
C3_CurlyApostropheFound ==
  CurlyWordInDocument =>
    LET k == CHOOSE j \in OccurrencesOf(FlatTextOfBody, CurlyOf(textToFind)) :
               TRUE
    IN results[1].result = NativeRangeOf(k, textToFind)

\* C4: every range the normalized scan has added to matches, extracted
\* from the segments and normalized, equals the normalized search text.
C4_NormalizedMatchesValidated ==
  pc = "normalized" =>
    \A i \in 1..Len(matches) :
      normalizeText(extractTextFromRange(textSegments,
                      matches[i].startIndex, matches[i].endIndex))
        = normalizeText(searchText)

\* the normalized scan has accepted a hit whose text differs from the query
C4_Witness ==
  /\ pc = "normalized"
  /\ Len(matches) >= 1
  /\ extractTextFromRange(textSegments, matches[1].startIndex,
                          matches[1].endIndex) # searchText

\* C9: every search terminates within a number of steps bounded by the
\* document size: a scan loop, which restarts behind each hit, reaches its
\* "not found" exit after at most one iteration per position of the
\* flattened text (positions 0..length).
C9_ScanBoundedByDocument ==
  pc \in {"exact", "normalized"} => scanSteps <= Len(fullText) + 1

InsertAt(ms, p, m) == SubSeq(ms, 1, p) \o <<m>> \o SubSeq(ms, p + 1, Len(ms))

RangesOf(ms) == {ms[i] : i \in 1..Len(ms)}

\* r is the inst-th range of the distinct ranges of ms in an ascending
\* order of startIndex, or NULL if there are fewer than inst
IsInstanceOf(r, ms, inst) ==
  IF Cardinality(RangesOf(ms)) < inst THEN r = NULL
  ELSE /\ r \in RangesOf(ms)
       /\ Cardinality({u \in RangesOf(ms) : u.startIndex < r.startIndex})
            <= inst - 1
       /\ Cardinality({u \in RangesOf(ms) : u.startIndex <= r.startIndex})
            >= inst

\* C10 as stated: a second copy of a range of the list, added at any
\* position, does not change the selected range, for every instance.
C10_StableUnderAnyCopy ==
  pc = "select" =>
    \A inst \in 1..(Len(allMatches) + 1) :
      /\ IsInstanceOf(SelectInstanceOf(allMatches, inst), allMatches, inst)
      /\ \A i \in 1..Len(allMatches) : \A p \in 0..Len(allMatches) :
           SelectInstanceOf(InsertAt(allMatches, p, allMatches[i]), inst)
             = SelectInstanceOf(allMatches, inst)

\* C10 amended: a second copy added after the first occurrence of the
\* range (as the loop over the variants adds it) does not change the
\* selected range; the selected range is the inst-th of the distinct
\* ranges in ascending order of startIndex, or none.
C10_StableUnderLaterCopy ==
  pc = "select" =>
    \A inst \in 1..(Len(allMatches) + 1) :
      /\ IsInstanceOf(SelectInstanceOf(allMatches, inst), allMatches, inst)
      /\ \A i \in 1..Len(allMatches) : \A p \in i..Len(allMatches) :
           SelectInstanceOf(InsertAt(allMatches, p, allMatches[i]), inst)
             = SelectInstanceOf(allMatches, inst)

\* the list to select from holds a range twice and two distinct ranges
C10_Witness ==
  /\ pc = "select"
  /\ \E i, j \in 1..Len(allMatches) : i < j /\ allMatches[i] = allMatches[j]
  /\ Cardinality(RangesOf(allMatches)) >= 2


\* ------------------------------------------------------- normalizeText
NormalizeChars ==
  {"a", "'", "RSQUO", "\"", "LDQUO", "-", "EMDASH", " ", "NBSP", "U2000",
   "U200A"}

\* normalizeText is applied to the text, then to its own result
ApplyNormalizeText ==
  /\ op = "normalize"
  /\ Len(normalized) < 2
  /\ normalized' =
       Append(normalized,
              normalizeText(IF normalized = <<>> THEN inputText
                            ELSE normalized[Len(normalized)]))
  /\ UNCHANGED <<concurrentVars, op, body, fetchCode, findVars, inputText, paragraphVars,
                 highlightVars>>

InitNormalize ==
  /\ op = "normalize"
  /\ body = NoContent
  /\ fetchCode = 0
  /\ NoConcurrent
  /\ FindAt("idle", <<>>, 1)
  /\ inputText \in StringsUpTo(NormalizeChars, MaxNormLen)
  /\ normalized = <<>>
  /\ NoParagraph
  /\ NoHighlight

NextNormalize == ApplyNormalizeText

SpecNormalize == InitNormalize /\ [][NextNormalize]_vars

\* C5: normalizeText is idempotent: applied to its own result it returns
\* that result.
C5_NormalizeIdempotent ==
  (op = "normalize" /\ Len(normalized) = 2) => normalized[2] = normalized[1]

\* a text with a whitespace run that holds a non-breaking space, which the
\* first application has changed
C5_Witness ==
  /\ op = "normalize"
  /\ Len(normalized) = 2
  /\ normalized[1] # inputText
  /\ \E i \in 1..(Len(inputText) - 1) :
       /\ inputText[i] \in Whitespace /\ inputText[i + 1] \in Whitespace
       /\ "NBSP" \in {inputText[i], inputText[i + 1]}
       /\ i > 1 /\ i + 1 < Len(inputText)


\* --------------------------------------------------- getParagraphRange
\* all cells of a table, row by row
CellsOf(tableRows) == ConcatAll(tableRows)

RECURSIVE findParagraphNoDescent(_, _)
findParagraphNoDescent(content, index) ==
  IF content = <<>> THEN NULL
  ELSE LET element == Head(content)
       IN IF /\ element.startIndex # UNDEF /\ element.endIndex # UNDEF
             /\ index >= element.startIndex /\ index < element.endIndex
             /\ element.kind \in {"paragraph", "table"}
          THEN Range(element.startIndex, element.endIndex)
          ELSE findParagraphNoDescent(Tail(content), index)

\* lines 373-411
RECURSIVE findParagraphInContent(_, _)
findParagraphInContent(content, index) ==
  LET RECURSIVE FirstInCells(_)
      FirstInCells(cells) ==
        IF cells = <<>> THEN NULL
        ELSE LET found == findParagraphInContent(Head(cells), index)
             IN IF found # NULL THEN found ELSE FirstInCells(Tail(cells))
  IN IF content = <<>> THEN NULL
     ELSE LET element == Head(content)
              found ==
                IF /\ element.startIndex # UNDEF /\ element.endIndex # UNDEF
                   /\ index >= element.startIndex /\ index < element.endIndex
                THEN IF element.kind = "paragraph"
                     THEN Range(element.startIndex, element.endIndex)
                     ELSE IF element.kind = "table"
                          THEN FirstInCells(CellsOf(element.tableRows))
                          ELSE NULL
                ELSE NULL
          IN IF found # NULL THEN found
             ELSE findParagraphInContent(Tail(content), index)

\* lines 423-428: the catch clause of getParagraphRange
ParagraphErrorOf(code) ==
  IF code = 404 THEN ErrorValue("UserError", "not found", "getParagraphRange")
  ELSE IF code = 403
       THEN ErrorValue("UserError", "permission denied", "getParagraphRange")
       ELSE ErrorValue("Error", "internal", "getParagraphRange")

ParagraphFetchFails ==
  /\ op = "paragraph"
  /\ paragraphPc = "fetching"
  /\ \E code \in FetchErrorCodes :
       /\ fetchCode' = code
       /\ paragraphThrown' = ParagraphErrorOf(code)
  /\ paragraphPc' = "thrown"
  /\ UNCHANGED <<concurrentVars, op, body, findVars, normalizeVars, highlightVars,
                 indexWithin, paragraphRange>>

\* lines 366-369
ParagraphNoContent ==
  /\ op = "paragraph"
  /\ paragraphPc = "fetching"
  /\ ~body.hasContent
  /\ paragraphRange' = NULL
  /\ paragraphPc' = "done"
  /\ UNCHANGED <<concurrentVars, op, body, fetchCode, findVars, normalizeVars,
                 highlightVars, indexWithin, paragraphThrown>>

\* lines 360-421
ParagraphFetchResolves ==
  /\ op = "paragraph"
  /\ paragraphPc = "fetching"
  /\ body.hasContent
  /\ paragraphRange' = findParagraphInContent(body.content, indexWithin)
  /\ paragraphPc' = "done"
  /\ UNCHANGED <<concurrentVars, op, body, fetchCode, findVars, normalizeVars,
                 highlightVars, indexWithin, paragraphThrown>>

StructuralDocuments ==
  {BuildDocument(t, layout) :
     t \in StringsUpTo({"a"}, MaxDocLen), layout \in StructuralLayouts}
    \cup {NoContent}

\* the index behind the last element of the body
EndOf(document) ==
  IF document.hasContent
  THEN document.content[Len(document.content)].endIndex ELSE 1

InitParagraph ==
  /\ op = "paragraph"
  /\ body \in StructuralDocuments
  /\ fetchCode = 0
  /\ NoConcurrent
  /\ FindAt("idle", <<>>, 1)
  /\ NoNormalize
  /\ NoHighlight
  /\ indexWithin \in 0..EndOf(body)
  /\ paragraphPc = "fetching"
  /\ paragraphRange = NULL
  /\ paragraphThrown = NoError

NextParagraph ==
  \/ ParagraphFetchFails
  \/ ParagraphNoContent
  \/ ParagraphFetchResolves

SpecParagraph == InitParagraph /\ [][NextParagraph]_vars

\* the ranges of the elements of a kind at any depth of the content
RECURSIVE ElementRanges(_, _)
ElementRanges(content, kind) ==
  UNION {LET element == content[i]
         IN (IF element.kind = kind
             THEN {Range(element.startIndex, element.endIndex)} ELSE {})
            \cup UNION {ElementRanges(CellsOf(element.tableRows)[c], kind) :
                          c \in 1..Len(CellsOf(element.tableRows))}
         : i \in 1..Len(content)}

Encloses(range, index) == range.startIndex <= index /\ index < range.endIndex

\* C8: getParagraphRange returns the range of the paragraph, at any depth
\* of table cells, that contains the index (never the range of a table),
\* and none when no paragraph contains it.
C8_EnclosingParagraph ==
  (op = "paragraph" /\ paragraphPc = "done" /\ body.hasContent) =>
    LET enclosing == {p \in ElementRanges(body.content, "paragraph") :
                        Encloses(p, indexWithin)}
    IN IF enclosing = {} THEN paragraphRange = NULL
       ELSE /\ paragraphRange \in enclosing
            /\ Encloses(paragraphRange, indexWithin)

\* the index lies in a paragraph of a cell of a table inside a table cell
C8_Witness ==
  /\ op = "paragraph"
  /\ paragraphPc = "done"
  /\ paragraphRange # NULL
  /\ \E outer, inner \in ElementRanges(body.content, "table") :
       /\ outer # inner
       /\ Encloses(outer, indexWithin)
       /\ Encloses(inner, indexWithin)
       /\ paragraphRange # inner


\* ------------------------------------------- highlightApostrophePhrase
\* lines 292-299: each pattern is (\w+)[apostrophe](letters\s+.+) with the
\* flag i; the letters are some required ones and one optional one
ApostrophePatterns ==
  << [required |-> <<>>, optional |-> "s"],
     [required |-> <<"r">>, optional |-> "e"],
     [required |-> <<"l">>, optional |-> "l"],
     [required |-> <<"v">>, optional |-> "e"],
     [required |-> <<>>, optional |-> "d"],
     [required |-> <<>>, optional |-> "t"] >>

\* the characters . does not match
LineTerminators == {"LF"}

NoMatch == [matched |-> FALSE, before |-> <<>>, after |-> <<>>]

\* \s+.+ from position w of s (1-based): the position behind the match, or
\* 0 when there is none.  \s+ takes the longest run that leaves a
\* character for .+, which then runs to the end of the line.
TailEnd(s, w) ==
  LET splits == {m \in (w + 1)..Len(s) :
                   /\ \A i \in w..(m - 1) : s[i] \in Whitespace
                   /\ s[m] \notin LineTerminators}
      m == CHOOSE x \in splits : \A y \in splits : y <= x
      ends == {e \in m..Len(s) : \A i \in m..e : s[i] \notin LineTerminators}
  IN IF splits = {} THEN 0
     ELSE (CHOOSE x \in ends : \A y \in ends : y <= x) + 1

\* the letters and the tail from position q: position behind the match or 0
SuffixEnd(s, q, pattern) ==
  LET n == Len(pattern.required)
      requiredOk == /\ q + n - 1 <= Len(s)
                    /\ SubSeq(s, q, q + n - 1) = pattern.required
      withOptional ==
        IF q + n <= Len(s) /\ s[q + n] = pattern.optional
        THEN TailEnd(s, q + n + 1) ELSE 0
  IN IF ~requiredOk THEN 0
     ELSE IF withOptional # 0 THEN withOptional
     ELSE TailEnd(s, q + n)

\* textToFind.match(pattern.regex): the leftmost match
MatchPattern(s, pattern) ==
  LET apostrophes == {j \in 2..Len(s) :
                        /\ s[j] \in ApostropheFamily
                        /\ s[j - 1] \in WordChars
                        /\ SuffixEnd(s, j + 1, pattern) # 0}
      j == CHOOSE x \in apostrophes : \A y \in apostrophes : x <= y
      starts == {i \in 1..(j - 1) : \A k \in i..(j - 1) : s[k] \in WordChars}
      i == CHOOSE x \in starts : \A y \in starts : x <= y
  IN IF apostrophes = {} THEN NoMatch
     ELSE [matched |-> TRUE,
           before |-> SubSeq(s, i, j - 1),
           after |-> SubSeq(s, j + 1, SuffixEnd(s, j + 1, pattern) - 1)]

\* lines 301-305: the first pattern that matches
RECURSIVE FirstMatch(_, _)
FirstMatch(s, k) ==
  IF k > Len(ApostrophePatterns) THEN NoMatch
  ELSE IF MatchPattern(s, ApostrophePatterns[k]).matched
       THEN MatchPattern(s, ApostrophePatterns[k])
       ELSE FirstMatch(s, k + 1)

\* lines 433-472: buildUpdateTextStyleRequest returns null without a style
\* field and throws on a color that is no hex color
StyleParams == {"none", "bold", "invalidColor"}
BuildsRequest(style) == style = "bold"
BuildThrows(style) == style = "invalidColor"
UpdateTextStyleRequest(range, style) == [range |-> range, fields |-> style]

BothHighlightedOrOne(count) == count >= 1
\* line 330
BothHighlighted(count) == count >= 2

\* lines 346-349: the catch clause returns false
HighlightCatch ==
  /\ highlightResult' = FALSE
  /\ highlightPc' = "done"

HighlightStart ==
  /\ op = "highlight"
  /\ highlightPc = "start"
  /\ LET match == FirstMatch(phrase, 1)
     IN IF match.matched
        THEN /\ beforeApostrophe' = match.before
             /\ afterApostrophe' = match.after
             /\ CallFindTextRange(match.before, phraseInstance)
             /\ highlightPc' = "findBefore"
        ELSE /\ UNCHANGED <<beforeApostrophe, afterApostrophe>>
             /\ CallFindTextRange(phrase, phraseInstance)
             /\ highlightPc' = "findWhole"
  /\ UNCHANGED <<concurrentVars, op, body, fetchCode, results, normalizeVars, paragraphVars,
                 phrase, phraseInstance, styleParams, successfulHighlights,
                 batchUpdates, highlightResult>>

\* lines 310-317, from the return of findTextRange
BeforeFound ==
  /\ op = "highlight"
  /\ highlightPc = "findBefore"
  /\ pc = "done"
  /\ IF result # NULL /\ BuildThrows(styleParams)
     THEN HighlightCatch /\ UNCHANGED findVars
     ELSE IF result # NULL /\ BuildsRequest(styleParams)
     THEN highlightPc' = "updateBefore"
          /\ UNCHANGED <<findVars, highlightResult>>
     ELSE /\ CallFindTextRange(afterApostrophe, phraseInstance)
          /\ highlightPc' = "findAfter"
          /\ UNCHANGED <<results, highlightResult>>
  /\ UNCHANGED <<concurrentVars, op, body, fetchCode, normalizeVars, paragraphVars, phrase,
                 phraseInstance, styleParams, beforeApostrophe,
                 afterApostrophe, successfulHighlights, batchUpdates>>

\* lines 314-320: executeBatchUpdate resolves, the second search starts
BeforeUpdated ==
  /\ op = "highlight"
  /\ highlightPc = "updateBefore"
  /\ batchUpdates' =
       Append(batchUpdates, UpdateTextStyleRequest(result, styleParams))
  /\ successfulHighlights' = successfulHighlights + 1
  /\ CallFindTextRange(afterApostrophe, phraseInstance)
  /\ highlightPc' = "findAfter"
  /\ UNCHANGED <<concurrentVars, op, body, fetchCode, results, normalizeVars, paragraphVars,
                 phrase, phraseInstance, styleParams, beforeApostrophe,
                 afterApostrophe, highlightResult>>

\* lines 320-330, from the return of findTextRange
AfterFound ==
  /\ op = "highlight"
  /\ highlightPc = "findAfter"
  /\ pc = "done"
  /\ IF result # NULL /\ BuildThrows(styleParams)
     THEN HighlightCatch
     ELSE IF result # NULL /\ BuildsRequest(styleParams)
     THEN highlightPc' = "updateAfter" /\ UNCHANGED highlightResult
     ELSE /\ highlightResult' = BothHighlighted(successfulHighlights)
          /\ highlightPc' = "done"
  /\ UNCHANGED <<concurrentVars, op, body, fetchCode, findVars, normalizeVars, paragraphVars,
                 phrase, phraseInstance, styleParams, beforeApostrophe,
                 afterApostrophe, successfulHighlights, batchUpdates>>

\* lines 324-330
AfterUpdated ==
  /\ op = "highlight"
  /\ highlightPc = "updateAfter"
  /\ batchUpdates' =
       Append(batchUpdates, UpdateTextStyleRequest(result, styleParams))
  /\ successfulHighlights' = successfulHighlights + 1
  /\ highlightResult' = BothHighlighted(successfulHighlights')
  /\ highlightPc' = "done"
  /\ UNCHANGED <<concurrentVars, op, body, fetchCode, findVars, normalizeVars, paragraphVars,
                 phrase, phraseInstance, styleParams, beforeApostrophe,
                 afterApostrophe>>

\* lines 335-344, from the return of findTextRange
WholeFound ==
  /\ op = "highlight"
  /\ highlightPc = "findWhole"
  /\ pc = "done"
  /\ IF result # NULL /\ BuildThrows(styleParams)
     THEN HighlightCatch
     ELSE IF result # NULL /\ BuildsRequest(styleParams)
     THEN highlightPc' = "updateWhole" /\ UNCHANGED highlightResult
     ELSE /\ highlightResult' = FALSE
          /\ highlightPc' = "done"
  /\ UNCHANGED <<concurrentVars, op, body, fetchCode, findVars, normalizeVars, paragraphVars,
                 phrase, phraseInstance, styleParams, beforeApostrophe,
                 afterApostrophe, successfulHighlights, batchUpdates>>

\* lines 339-340
WholeUpdated ==
  /\ op = "highlight"
  /\ highlightPc = "updateWhole"
  /\ batchUpdates' =
       Append(batchUpdates, UpdateTextStyleRequest(result, styleParams))
  /\ highlightResult' = TRUE
  /\ highlightPc' = "done"
  /\ UNCHANGED <<concurrentVars, op, body, fetchCode, findVars, normalizeVars, paragraphVars,
                 phrase, phraseInstance, styleParams, beforeApostrophe,
                 afterApostrophe, successfulHighlights>>

\* lines 24-46 and 346-349: docs.documents.batchUpdate rejects,
\* executeBatchUpdate throws, the catch clause returns false
UpdateRejects ==
  /\ op = "highlight"
  /\ highlightPc \in {"updateBefore", "updateAfter", "updateWhole"}
  /\ HighlightCatch
  /\ UNCHANGED <<concurrentVars, op, body, fetchCode, findVars, normalizeVars, paragraphVars,
                 phrase, phraseInstance, styleParams, beforeApostrophe,
                 afterApostrophe, successfulHighlights, batchUpdates>>

\* lines 346-349: findTextRange has thrown, the catch clause returns false
FindThrows ==
  /\ op = "highlight"
  /\ highlightPc \in {"findBefore", "findAfter", "findWhole"}
  /\ pc = "thrown"
  /\ HighlightCatch
  /\ UNCHANGED <<concurrentVars, op, body, fetchCode, findVars, normalizeVars, paragraphVars,
                 phrase, phraseInstance, styleParams, beforeApostrophe,
                 afterApostrophe, successfulHighlights, batchUpdates>>

HighlightStep ==
  \/ HighlightStart
  \/ BeforeFound
  \/ BeforeUpdated
  \/ AfterFound
  \/ AfterUpdated
  \/ WholeFound
  \/ WholeUpdated
  \/ UpdateRejects
  \/ FindThrows

PhraseChars == {"a", "'", " "}
\* phrases: all short ones, and those with a suffix letter
Phrases ==
  StringsUpTo(PhraseChars, MaxPhraseLen)
    \cup {<<"a", ap, letter>> \o rest :
            ap \in {"'", "RSQUO"}, letter \in {"s", "t"},
            rest \in StringsUpTo({"a", " "}, MaxPhraseLen - 2)}

HighlightDocuments ==
  {BuildDocument(t, "single") : t \in StringsUpTo({"a", " "}, MaxHDocLen)}
    \cup {NoContent}

InitHighlight ==
  /\ op = "highlight"
  /\ body \in HighlightDocuments
  /\ fetchCode = 0
  /\ NoConcurrent
  /\ FindAt("idle", <<>>, 1)
  /\ NoNormalize
  /\ NoParagraph
  /\ \E query \in Phrases, inst \in 1..MaxHInstance, style \in StyleParams :
       HighlightAt("start", query, inst, style)

NextHighlight == HighlightStep \/ FindStep

SpecHighlight == InitHighlight /\ [][NextHighlight]_vars


\* the phrase has matched a contraction pattern and the call has returned
SplitAndReturned ==
  /\ op = "highlight"
  /\ highlightPc = "done"
  /\ beforeApostrophe # <<>>

\* C6: a phrase that matches a contraction pattern is split into the word
\* before and the rest after the apostrophe, each half is searched by
\* findTextRange with the instance number of the call, and the result is
\* true only if both searches returned a range.
C6_BothHalvesOrFailure ==
  SplitAndReturned =>
    /\ \E j \in 2..Len(phrase) :
         /\ phrase[j] \in ApostropheFamily
         /\ \E i \in 1..(j - 1) : beforeApostrophe = SubSeq(phrase, i, j - 1)
         /\ \A k \in 1..Len(beforeApostrophe) :
              beforeApostrophe[k] \in WordChars
         /\ afterApostrophe = SubSeq(phrase, j + 1, Len(phrase))
    /\ Len(results) \in {1, 2}
    /\ results[1].text = beforeApostrophe
    /\ results[1].instance = phraseInstance
    /\ Len(results) = 2 =>
         /\ results[2].text = afterApostrophe
         /\ results[2].instance = phraseInstance
    /\ highlightResult =>
         /\ Len(results) = 2
         /\ results[1].result # NULL
         /\ results[2].result # NULL

\* one half was found and highlighted, the other was not found, and the
\* call has reported failure
C6_Witness ==
  /\ SplitAndReturned
  /\ Len(results) = 2
  /\ results[1].result # NULL
  /\ results[2].result = NULL
  /\ results[2].thrown = NoError
  /\ successfulHighlights = 1
  /\ ~highlightResult

\* the error the claim expects for a failure code of the fetch
PropagatedError(error, code) ==
  /\ error.type = IF code \in {404, 403} THEN "UserError" ELSE "Error"
  /\ error.condition = IF code = 404 THEN "not found"
                       ELSE IF code = 403 THEN "permission denied"
                       ELSE "internal"

\* C7: in findTextRange, getParagraphRange and highlightApostrophePhrase a
\* failure of the document fetch ends the call with a thrown error of the
\* kind of the failure, never with a returned value.
C7_FetchFailurePropagates ==
  /\ (op = "find" /\ fetchCode # 0) =>
       pc = "thrown" /\ PropagatedError(thrown, fetchCode)
  /\ (op = "paragraph" /\ fetchCode # 0) =>
       paragraphPc = "thrown" /\ PropagatedError(paragraphThrown, fetchCode)
  /\ (op = "highlight" /\ fetchCode # 0) =>
       /\ PropagatedError(thrown, fetchCode)
       /\ highlightPc # "done"


\* the elements of a set of numbers in ascending order
RECURSIVE Ascending(_)
Ascending(S) ==
  IF S = {} THEN <<>>
  ELSE LET least == CHOOSE x \in S : \A y \in S : x <= y
       IN <<least>> \o Ascending(S \ {least})

\* the document ranges of all occurrences of q in the flattened text of
\* the document, overlapping ones included, from left to right
OccurrenceRanges(q) ==
  LET offsets == Ascending(OccurrencesOf(FlatTextOfBody, q))
  IN [i \in 1..Len(offsets) |-> NativeRangeOf(offsets[i], q)]

\* findValidatedMatches returns for a non-empty search text that occurs in
\* the flattened text
ExactPassReturned ==
  /\ op = "find"
  /\ pc = "returned"
  /\ searchText # <<>>
  /\ OccurrencesOf(fullText, searchText) # {}

\* C12: the exact scan reports every occurrence of a non-empty search text
\* in the flattened text, overlapping occurrences included, from left to
\* right: the matches are the ranges of the occurrences at all offsets.
C12_ExactPassFindsOverlapping ==
  ExactPassReturned => matches = OccurrenceRanges(searchText)

\* the search text "aa" in a flattened text that starts with "aaa": two
\* matches, at the offsets 0 and 1
C12_Witness ==
  /\ ExactPassReturned
  /\ searchText = <<"a", "a">>
  /\ SubSeq(fullText, 1, 3) = <<"a", "a", "a">>
  /\ {0, 1} \subseteq OccurrencesOf(fullText, searchText)
  /\ Len(matches) >= 2
  /\ matches[1].startIndex + 1 = matches[2].startIndex
  /\ matches[1].endIndex > matches[2].startIndex


\* C14: for each search variant the normalized scan runs only if the exact
\* scan found nothing: it is never entered while the search text occurs in
\* the flattened text, and when the exact scan has matches, the matches
\* findValidatedMatches returns are ranges whose text is the search text
\* itself, none of them found through normalization only.
C14_NormalizedOnlyAfterEmptyExact ==
  /\ (op = "find" /\ pc = "normalized") =>
       /\ OccurrencesOf(fullText, searchText) = {}
       /\ \A i \in 1..Len(matches) :
            extractTextFromRange(textSegments, matches[i].startIndex,
                                 matches[i].endIndex) # searchText
  /\ ExactPassReturned =>
       /\ Len(matches) = Cardinality(OccurrencesOf(fullText, searchText))
       /\ \A i \in 1..Len(matches) :
            extractTextFromRange(textSegments, matches[i].startIndex,
                                 matches[i].endIndex) = searchText

\* the exact scan has matches and the normalized scan, had it run, would
\* have had more hits than the exact scan
C14_Witness ==
  /\ ExactPassReturned
  /\ Len(matches) >= 1
  /\ Cardinality(OccurrencesOf(normalizeText(fullText),
                               normalizeText(searchText)))
       > Cardinality(OccurrencesOf(fullText, searchText))


\* C15: a call of highlightApostrophePhrase that returns false has issued
\* no batch update: the document is as it was before the call.
C15_FailureLeavesDocumentUnchanged ==
  (op = "highlight" /\ highlightPc = "done" /\ ~highlightResult) =>
    batchUpdates = <<>>


\* ------------------------------- findTextRange as a function of its inputs
\* lines 150-166: the matches of the exact scan from searchIndex on, for a
\* non-empty search text
RECURSIVE ExactMatchesFrom(_, _, _, _)
ExactMatchesFrom(text, map, search, from) ==
  LET foundIndex == IndexOf(text, search, from)
      endOffset == ExactEndOffset(foundIndex, Len(search))
  IN IF foundIndex = -1 THEN <<>>
     ELSE (IF /\ MappingDefined(map, foundIndex)
              /\ MappingDefined(map, endOffset)
           THEN <<Range(MappingAt(map, foundIndex).originalIndex,
                        MappingAt(map, endOffset).originalIndex + 1)>>
           ELSE <<>>)
          \o ExactMatchesFrom(text, map, search,
                              NextSearchIndex(foundIndex, Len(search)))

\* lines 180-210 for the text and the char map of a call
HitRangeIn(text, map, foundIndex, normalizedSearchText) ==
  LET originalFoundIndex == WalkToFound(text, 0, 0, foundIndex)
      originalEndIndex ==
        WalkToEnd(text, originalFoundIndex, Len(normalizedSearchText))
  IN IF /\ MappingDefined(map, originalFoundIndex)
        /\ MappingDefined(map, originalEndIndex - 1)
     THEN Range(MappingAt(map, originalFoundIndex).originalIndex,
                MappingAt(map, originalEndIndex - 1).originalIndex + 1)
     ELSE NULL

\* lines 174-224: the matches of the normalized scan from searchIndex on,
\* for a non-empty normalized search text
RECURSIVE NormalizedMatchesFrom(_, _, _, _, _)
NormalizedMatchesFrom(segments, text, map, normalizedSearchText, from) ==
  LET foundIndex == IndexOf(normalizeText(text), normalizedSearchText, from)
      hit == HitRangeIn(text, map, foundIndex, normalizedSearchText)
  IN IF foundIndex = -1 THEN <<>>
     ELSE (IF /\ hit # NULL
              /\ Validated(extractTextFromRange(segments, hit.startIndex,
                                                hit.endIndex),
                           normalizedSearchText)
           THEN <<hit>> ELSE <<>>)
          \o NormalizedMatchesFrom(segments, text, map, normalizedSearchText,
                                   foundIndex + 1)

\* indexOf of an empty text never returns -1: the scan loop does not end
ScanDiverges(segments, search) ==
  \/ search = <<>>
  \/ /\ normalizeText(search) = <<>>
     /\ RunsNormalizedPass(
          ExactMatchesFrom(BuildFullText(segments),
                           BuildCharToSegmentMap(segments), search, 0))

\* lines 145-228: findValidatedMatches(searchText), when its loops end
findValidatedMatches(segments, search) ==
  LET text == BuildFullText(segments)
      map == BuildCharToSegmentMap(segments)
      exact == ExactMatchesFrom(text, map, search, 0)
  IN IF RunsNormalizedPass(exact)
     THEN exact \o NormalizedMatchesFrom(segments, text, map,
                                         normalizeText(search), 0)
     ELSE exact

\* lines 250-260: the loop over the variants from variant k on; diverges is
\* set when a scan of a variant that is reached does not end
RECURSIVE AccumulateVariants(_, _, _, _, _)
AccumulateVariants(segments, text, inst, k, allFound) ==
  IF ScanDiverges(segments, searchVariants(text)[k])
  THEN [diverges |-> TRUE, matches |-> allFound]
  ELSE LET found ==
             allFound \o findValidatedMatches(segments, searchVariants(text)[k])
       IN IF Len(found) >= inst \/ k = 3
          THEN [diverges |-> FALSE, matches |-> found]
          ELSE AccumulateVariants(segments, text, inst, k + 1, found)

\* lines 52-273: what a call of findTextRange on the fetched body returns
FindTextRangeOf(fetched, text, inst) ==
  IF ~fetched.hasContent THEN [diverges |-> FALSE, result |-> NULL]
  ELSE LET segments == SortByStartIndex(extractTextFromContent(fetched.content))
           found == AccumulateVariants(segments, text, inst, 1, <<>>)
       IN [diverges |-> found.diverges,
           result |-> IF found.diverges THEN NULL
                      ELSE SelectInstanceOf(found.matches, inst)]

\* the step by step run of a call ends with the value of FindTextRangeOf
FindTextRangeAgrees ==
  /\ (pc = "done" /\ fetchCode = 0) =>
       /\ ~FindTextRangeOf(body, textToFind, instance).diverges
       /\ result = FindTextRangeOf(body, textToFind, instance).result
  /\ (pc \in {"exact", "normalized"} /\ scanSteps > Len(fullText) + 1) =>
       FindTextRangeOf(body, textToFind, instance).diverges


\* the matches of all three search variants, none of them left out
AllVariantMatches(segments, text) ==
  ConcatAll([k \in 1..3 |->
               findValidatedMatches(segments, searchVariants(text)[k])])

\* C16: for a query none of whose variants is empty, findTextRange returns
\* the instance-th range, in the order of startIndex, of the deduplicated
\* matches of all three search variants, and none only if these are fewer
\* than instance distinct ranges.
C16_EarlyStopLosesNothing ==
  (/\ op = "find"
   /\ pc = "done"
   /\ fetchCode = 0
   /\ body.hasContent
   /\ normalizeText(textToFind) # <<>>) =>
    LET union == uniqueMatchesOf(AllVariantMatches(SegmentsOfBody, textToFind))
    IN /\ Len(union) >= instance =>
            /\ result # NULL
            /\ result.startIndex = union[instance].startIndex
            /\ \E i \in 1..Len(union) :
                 /\ union[i] = result
                 /\ union[i].startIndex = union[instance].startIndex
       /\ Len(union) < instance => result = NULL


\* --------------------------------- findTextRange over runs of whitespace
WhitespaceChars == {"a", " "}

WhitespaceDocuments ==
  {BuildDocument(t, "single") : t \in StringsUpTo(WhitespaceChars, MaxWalkDocLen)}
    \cup {NoContent}

WhitespaceQueries == StringsUpTo(WhitespaceChars, MaxWalkQueryLen)

InitWhitespace ==
  /\ op = "find"
  /\ body \in WhitespaceDocuments
  /\ fetchCode = 0
  /\ NoConcurrent
  /\ \E query \in WhitespaceQueries : FindAt("fetching", query, 1)
  /\ NoNormalize
  /\ NoParagraph
  /\ NoHighlight

NextWhitespace == FindStep

SpecWhitespace == InitWhitespace /\ [][NextWhitespace]_vars

\* words with single spaces between them, none at the ends
SingleSpaced(q) ==
  /\ q # <<>>
  /\ q[1] \notin Whitespace
  /\ q[Len(q)] \notin Whitespace
  /\ \A i \in 1..(Len(q) - 1) :
       ~(q[i] \in Whitespace /\ q[i + 1] \in Whitespace)
  /\ \A i \in 1..Len(q) : q[i] \in Whitespace => q[i] = " "

\* the spans (first and last position, from 1) of the text that start and
\* end with a character of a word and are the query up to the length of
\* their whitespace runs
SpansUpToWhitespace(text, q) ==
  {span \in (1..Len(text)) \X (1..Len(text)) :
     /\ span[1] <= span[2]
     /\ text[span[1]] \notin Whitespace
     /\ text[span[2]] \notin Whitespace
     /\ CollapseWhitespace(SubSeq(text, span[1], span[2])) = q}

\* C13: the query has single spaces and the document has one occurrence of
\* it up to the length of the whitespace runs, with whitespace of any
\* length before or inside it: findTextRange returns the document range
\* of that occurrence.
C13_WalkRecoversOriginalSpan ==
  (/\ op = "find"
   /\ pc = "done"
   /\ fetchCode = 0
   /\ body.hasContent
   /\ instance = 1
   /\ SingleSpaced(textToFind)
   /\ Cardinality(SpansUpToWhitespace(FlatTextOfBody, textToFind)) = 1) =>
    LET span == CHOOSE x \in SpansUpToWhitespace(FlatTextOfBody, textToFind) :
                  TRUE
    IN result = Range(NativeIndexOf(SegmentsOfBody, span[1] - 1),
                      NativeIndexOf(SegmentsOfBody, span[2] - 1) + 1)


\* ------------------------------------------- concurrent findTextRange
\* Each call has its own textToFind, instance, res (the fetched body) and
\* everything computed from them; the file has no variable outside the
\* functions that a call writes.  The code behind the await of line 55
\* runs to the return without another await.
Callers == {"first", "second"}

ConcurrentQueries == {<<>>, <<"a">>, <<"a", " ">>}

ConcurrentDocuments ==
  {BuildDocument(t, "single") : t \in StringsUpTo({"a"}, MaxConcurrentDocLen)}
    \cup {NoContent}

\* a call that awaits docs.documents.get
CallAwaiting(text, inst) ==
  [textToFind |-> text, instance |-> inst, pc |-> "fetching",
   fetched |-> NoContent, result |-> NULL, thrown |-> NoError]

\* a scan loop of some call does not end: the event loop never gets back
EventLoopBlocked == \E c \in Callers : calls[c].pc = "looping"

\* the document changes between the fetches of the calls
DocumentEdited ==
  /\ op = "concurrent"
  /\ body' \in ConcurrentDocuments \ {body}
  /\ UNCHANGED <<op, fetchCode, findVars, callerVars>>

\* lines 275-279 for the call c
ConcurrentFetchFails(c) ==
  /\ op = "concurrent"
  /\ ~EventLoopBlocked
  /\ calls[c].pc = "fetching"
  /\ \E code \in FetchErrorCodes :
       calls' = [calls EXCEPT ![c].pc = "thrown",
                              ![c].thrown = FindErrorOf(code)]
  /\ UNCHANGED <<op, body, fetchCode, findVars, normalizeVars, paragraphVars,
                 highlightVars>>

\* line 55: the fetch of the call c resolves with the document as it is
ConcurrentFetchResolves(c) ==
  /\ op = "concurrent"
  /\ ~EventLoopBlocked
  /\ calls[c].pc = "fetching"
  /\ calls' = [calls EXCEPT ![c].pc = "resumed", ![c].fetched = body]
  /\ UNCHANGED <<op, body, fetchCode, findVars, normalizeVars, paragraphVars,
                 highlightVars>>

\* res.data.body of the call c
FetchedBodyShared(c) == body
FetchedBody(c) == calls[c].fetched

\* lines 60-273: the call c runs from the await to its return
ConcurrentRunToReturn(c) ==
  /\ op = "concurrent"
  /\ ~EventLoopBlocked
  /\ calls[c].pc = "resumed"
  /\ LET outcome == FindTextRangeOf(FetchedBody(c), calls[c].textToFind,
                                    calls[c].instance)
     IN calls' = [calls EXCEPT
                    ![c].pc = IF outcome.diverges THEN "looping" ELSE "done",
                    ![c].result = outcome.result]
  /\ UNCHANGED <<op, body, fetchCode, findVars, normalizeVars, paragraphVars,
                 highlightVars>>

InitConcurrent ==
  /\ op = "concurrent"
  /\ body \in ConcurrentDocuments
  /\ fetchCode = 0
  /\ FindAt("idle", <<>>, 1)
  /\ NoNormalize
  /\ NoParagraph
  /\ NoHighlight
  /\ calls \in [Callers -> {CallAwaiting(text, inst) :
                              text \in ConcurrentQueries,
                              inst \in 1..MaxConcurrentInstance}]

NextConcurrent ==
  \/ DocumentEdited
  \/ \E c \in Callers : ConcurrentFetchFails(c)
  \/ \E c \in Callers : ConcurrentFetchResolves(c)
  \/ \E c \in Callers : ConcurrentRunToReturn(c)

SpecConcurrent == InitConcurrent /\ [][NextConcurrent]_vars

====
